---- MODULE Spec2Model ----
(***************************************************************************)
(* Model of the fail2ban web dashboard backend (src/fail2ban_web/app.py):  *)
(* the command channel, the status parsers, the mode flag resolved at      *)
(* startup, the synthetic data generator, the ban_log table and the        *)
(* request handlers.                                                       *)
(*                                                                         *)
(* Text is modelled as a sequence of symbols.  A symbol is one character   *)
(* (":", ",", " ", "|", "-", TAB, NL, BQ for the backquote, a decimal       *)
(* digit) or an indivisible word such                                      *)
(* as "Currently failed" or "1.2.3.4"; the string operations of the code   *)
(* (strip, split, substring test, regular expression \d+, int) are         *)
(* computed on these sequences the way Python computes them on             *)
(* characters.                                                             *)
(***************************************************************************)
EXTENDS Integers, Sequences, FiniteSets, TLC

\* ------------------------------------------------------------------ bounds

\* Largest number of rows the ban_log table holds in the model.
MaxLog == 2

\* ------------------------------------------------------- program constants

\* get_ban_log: Query(100, ge=1, le=1000)
MinLimit == 1
MaxLimit == 1000
\* run_f2b_command: FileNotFoundError and TimeoutExpired codes
NotFoundCode == -1
TimeoutCode == -2

\* ------------------------------------------------------------------ text

NL == "NL"
TAB == "TAB"
BQ == "BQ"
SP == " "
COLON == ":"
COMMA == ","

\* str.strip() and str.split() treat these as whitespace.
IsSpace(c) == c \in {SP, TAB, NL}

Digits == {"0", "1", "2", "3", "4", "5", "6", "7", "8", "9"}

\* What \d matches.
IsDigit(c) == c \in Digits

DigitVal(c) ==
    CASE c = "0" -> 0 [] c = "1" -> 1 [] c = "2" -> 2 [] c = "3" -> 3
      [] c = "4" -> 4 [] c = "5" -> 5 [] c = "6" -> 6 [] c = "7" -> 7
      [] c = "8" -> 8 [] c = "9" -> 9

RECURSIVE LStrip(_)
LStrip(s) ==
    IF s = <<>> THEN s
    ELSE IF IsSpace(Head(s)) THEN LStrip(Tail(s)) ELSE s

RECURSIVE RStrip(_)
RStrip(s) ==
    IF s = <<>> THEN s
    ELSE IF IsSpace(s[Len(s)]) THEN RStrip(SubSeq(s, 1, Len(s) - 1)) ELSE s

\* str.strip()
Strip(s) == RStrip(LStrip(s))

RECURSIVE SplitAcc(_, _, _, _)
SplitAcc(s, sep, cur, acc) ==
    IF s = <<>> THEN Append(acc, cur)
    ELSE IF Head(s) = sep
         THEN SplitAcc(Tail(s), sep, <<>>, Append(acc, cur))
         ELSE SplitAcc(Tail(s), sep, Append(cur, Head(s)), acc)

\* str.split(sep): the pieces between separators, empty pieces kept.
Split(s, sep) == SplitAcc(s, sep, <<>>, <<>>)

RECURSIVE SplitWsAcc(_, _, _)
SplitWsAcc(s, cur, acc) ==
    IF s = <<>> THEN (IF cur = <<>> THEN acc ELSE Append(acc, cur))
    ELSE IF IsSpace(Head(s))
         THEN SplitWsAcc(Tail(s), <<>>, IF cur = <<>> THEN acc ELSE Append(acc, cur))
         ELSE SplitWsAcc(Tail(s), Append(cur, Head(s)), acc)

\* str.split(): the maximal runs of non-whitespace.
SplitWs(s) == SplitWsAcc(s, <<>>, <<>>)

\* sub in s
Contains(s, sub) ==
    \E i \in 1..(Len(s) - Len(sub) + 1) : SubSeq(s, i, i + Len(sub) - 1) = sub

\* seq[-1]
Last(seq) == seq[Len(seq)]

\* The run of digits of s that starts at position first.
DigitRun(s, first) ==
    SubSeq(s, first, CHOOSE k \in first..Len(s) :
                         /\ \A j \in first..k : IsDigit(s[j])
                         /\ (k = Len(s) \/ ~IsDigit(s[k + 1])))

\* The run of digits of s that starts at the least position of idx.
FirstRun(s, idx) ==
    IF idx = {} THEN <<>>
    ELSE DigitRun(s, CHOOSE i \in idx : \A j \in idx : i <= j)

\* re.search(r"\d+", s): the first maximal run of digits; <<>> stands for
\* None (a match is never empty).
ReSearchDigits(s) == FirstRun(s, {i \in 1..Len(s) : IsDigit(s[i])})

RECURSIVE IntOf(_)
\* int(digits)
IntOf(ds) ==
    IF ds = <<>> THEN 0
    ELSE 10 * IntOf(SubSeq(ds, 1, Len(ds) - 1)) + DigitVal(ds[Len(ds)])

\* [f(x) for x in xs if keep(x)] for f = strip and keep = non-empty
RECURSIVE StripNonEmpty(_)
StripNonEmpty(xs) ==
    IF xs = <<>> THEN <<>>
    ELSE LET x == Strip(Head(xs))
         IN  IF x = <<>> THEN StripNonEmpty(Tail(xs))
             ELSE <<x>> \o StripNonEmpty(Tail(xs))

\* ------------------------------------------------------ status parser

LblCurrentlyFailed == <<"Currently failed", COLON>>
LblTotalFailed     == <<"Total failed", COLON>>
LblCurrentlyBanned == <<"Currently banned", COLON>>
LblTotalBanned     == <<"Total banned", COLON>>
LblBannedIpList    == <<"Banned IP list", COLON>>
LblJailList        == <<"Jail list", COLON>>

\* int(m.group()): the value, or the AttributeError raised by None.group()
\* when the search matched nothing.
GroupInt(m) ==
    IF m = <<>> THEN [raised |-> TRUE, value |-> 0]
    ELSE [raised |-> FALSE, value |-> IntOf(m)]

\* int(re.search(r"\d+", line.split(":")[-1]).group())
ParseCount(line) == GroupInt(ReSearchDigits(Last(Split(line, COLON))))

\* The initial result record of parse_jail_status.
EmptyJailRecord(jail_name) ==
    [name |-> jail_name, currently_failed |-> 0, total_failed |-> 0,
     currently_banned |-> 0, total_banned |-> 0, banned_ips |-> <<>>]

\* result[field] = c, unless computing c raised.
SetCount(result, field, c) ==
    [raised |-> c.raised,
     result |-> IF c.raised THEN result ELSE [result EXCEPT ![field] = c.value]]

\* if ip_str: result["banned_ips"] = [ip.strip() for ip in ip_str.split() if ip.strip()]
SetBannedIps(result, ip_str) ==
    [raised |-> FALSE,
     result |-> IF ip_str # <<>>
                THEN [result EXCEPT !.banned_ips = StripNonEmpty(SplitWs(ip_str))]
                ELSE result]

\* The if/elif chain of parse_jail_status on a stripped line.  The value
\* is [raised, result].
ParseStripped(result, line) ==
    IF Contains(line, LblCurrentlyFailed)
    THEN SetCount(result, "currently_failed", ParseCount(line))
    ELSE IF Contains(line, LblTotalFailed)
    THEN SetCount(result, "total_failed", ParseCount(line))
    ELSE IF Contains(line, LblCurrentlyBanned)
    THEN SetCount(result, "currently_banned", ParseCount(line))
    ELSE IF Contains(line, LblTotalBanned)
    THEN SetCount(result, "total_banned", ParseCount(line))
    ELSE IF Contains(line, LblBannedIpList)
    THEN SetBannedIps(result, Strip(Last(Split(line, COLON))))
    ELSE [raised |-> FALSE, result |-> result]

\* One iteration of the loop of parse_jail_status over a line.
ParseLine(result, rawline) == ParseStripped(result, Strip(rawline))

RECURSIVE ParseLines(_, _)
RECURSIVE ParseRest(_, _)
\* The loop goes on after a line unless the line raised.
ParseRest(r, lines) == IF r.raised THEN r ELSE ParseLines(r.result, lines)

\* The loop of parse_jail_status: the first line that raises ends it.
ParseLines(result, lines) ==
    IF lines = <<>> THEN [raised |-> FALSE, result |-> result]
    ELSE ParseRest(ParseLine(result, Head(lines)), Tail(lines))

\* A non-zero status code of the command channel.
CommandFailed(code) == code # 0

\* What parse_jail_status returns or raises once the loop has ended.
ParseOutcome(r) ==
    IF r.raised THEN [kind |-> "raise", value |-> [error |-> <<"AttributeError">>]]
    ELSE [kind |-> "record", value |-> r.result]

\* parse_jail_status(jail_name), given the (output, code) its command
\* returned.  kind is "record" (the parsed record), "error" (the error
\* marker) or "raise" (an AttributeError leaves the function).
parse_jail_status(jail_name, output, code) ==
    IF CommandFailed(code)
    THEN [kind |-> "error",
          value |-> [error |-> <<"Failed to get status for", SP>> \o jail_name]]
    ELSE ParseOutcome(ParseLines(EmptyJailRecord(jail_name), Split(output, NL)))

RECURSIVE FirstJailListLine(_)
\* The first line holding "Jail list:", or <<>> when there is none.
FirstJailListLine(lines) ==
    IF lines = <<>> THEN <<>>
    ELSE IF Contains(Head(lines), LblJailList) THEN Head(lines)
    ELSE FirstJailListLine(Tail(lines))

\* return [j.strip() for j in jails_str.split(",") if j.strip()] for the
\* line found, [] when no line holds the label.
JailsOfLine(line) ==
    IF line = <<>> THEN <<>>
    ELSE StripNonEmpty(Split(Strip(Last(Split(line, COLON))), COMMA))

\* get_all_jails(), given the (output, code) its command returned.
get_all_jails(output, code) ==
    IF CommandFailed(code) THEN <<>>
    ELSE JailsOfLine(FirstJailListLine(Split(output, NL)))

\* ----------------------------------------------------- command channel

\* The argument lists the handlers pass to run_f2b_command.
StatusArgs == << <<"status">> >>
JailStatusArgs(jail_name) == << <<"status">>, jail_name >>
UnbanArgs(jail_name, ip) == << <<"set">>, jail_name, <<"unbanip">>, ip >>
BanArgs(jail_name, ip) == << <<"set">>, jail_name, <<"banip">>, ip >>

\* The tree drawing fail2ban-client puts before a line: "|- ", "`- ",
\* "|  |- ", "|  `- ", "   |- ", "   `- ".
Tee        == <<"|", "-", SP>>
Corner     == <<BQ, "-", SP>>
BarTee     == <<"|", SP, SP>> \o Tee
BarCorner  == <<"|", SP, SP>> \o Corner
PadTee     == <<SP, SP, SP>> \o Tee
PadCorner  == <<SP, SP, SP>> \o Corner

\* One line of output: the drawing, the label, a colon, a tab, the value.
Row(drawing, label, value) == drawing \o <<label, COLON, TAB>> \o value \o <<NL>>

\* Standard output of fail2ban-client status, before strip(): two jails,
\* an empty jail list, and a reply with no jail list line.
ListTexts ==
    { <<"Status", NL>> \o Row(Tee, "Number of jail", <<"2">>)
         \o Row(Corner, "Jail list", <<"sshd", COMMA, SP, "nginx-http-auth">>),
      <<"Status", NL>> \o Row(Tee, "Number of jail", <<"0">>)
         \o Row(Corner, "Jail list", <<>>),
      <<"pong", NL>> }

\* Standard output of fail2ban-client status <jail>, before strip(): a
\* full report, one whose count holds no digit, and one with no count line
\* and an empty address list.
StatusTexts ==
    { Row(<<>>, "Status for the jail", <<"sshd">>)
         \o Tee \o <<"Filter", NL>>
         \o Row(BarTee, "Currently failed", <<"1">>)
         \o Row(BarCorner, "Total failed", <<"4", "0">>)
         \o Corner \o <<"Actions", NL>>
         \o Row(PadTee, "Currently banned", <<"3">>)
         \o Row(PadTee, "Total banned", <<"1", "3">>)
         \o Row(PadCorner, "Banned IP list", <<"1.2.3.4", SP, "5.6.7.8">>),
      Row(PadTee, "Currently banned", <<"n/a">>)
         \o Row(PadTee, "Total banned", <<"2">>),
      Row(<<>>, "Status for the jail", <<"sshd">>)
         \o Row(PadCorner, "Banned IP list", <<>>) }

\* Standard output of fail2ban-client set <jail> banip|unbanip <ip>.
SetTexts == { <<"1", NL>> }

\* What a command that exits non-zero wrote to standard output.
FailTexts == { <<"ERROR", SP, "NOK", NL>> }

Stdout(args) ==
    IF args = StatusArgs THEN ListTexts
    ELSE IF Head(args) = <<"status">> THEN StatusTexts
    ELSE SetTexts

\* run_f2b_command(args): the (output, code) pairs it can return.  With the
\* backend up the command exits 0 or non-zero; with the backend down the
\* executable is missing (-1), the call times out (-2) or the transport
\* exits non-zero.
run_f2b_command(args, up) ==
    IF up
    THEN {[output |-> Strip(t), code |-> 0] : t \in Stdout(args)}
           \cup {[output |-> Strip(t), code |-> 255] : t \in FailTexts}
    ELSE {[output |-> <<>>, code |-> NotFoundCode],
          [output |-> <<"timeout">>, code |-> TimeoutCode],
          [output |-> <<>>, code |-> 255]}

\* is_f2b_available(), given the code of its status command
is_f2b_available(code) == code = 0

\* ------------------------------------------------------------ ban_log

SchemaObjects ==
    {"ban_log", "snapshots", "idx_ban_log_ts", "idx_ban_log_jail", "idx_ban_log_ip"}

\* A database file that does not exist yet.
NoDatabase == [objects |-> {}, ban_log |-> {}, sqlite_sequence |-> 0]

\* A variant of init_db that creates the tables anew.
init_db_recreate(d) == [objects |-> SchemaObjects, ban_log |-> {}, sqlite_sequence |-> 0]

\* init_db(): CREATE TABLE / INDEX IF NOT EXISTS creates what is missing
\* and leaves existing tables and their rows alone.
init_db(d) == [d EXCEPT !.objects = @ \cup SchemaObjects]

\* A variant of the INSERT that writes the other handler's action.
InsertSwapped(d, ts, jail_name, ip, action) ==
    LET id == d.sqlite_sequence + 1
        row == [id |-> id, timestamp |-> ts, jail |-> jail_name, ip |-> ip,
                action |-> IF action = "ban" THEN "unban" ELSE "ban",
                country |-> "NULL", hostname |-> "NULL"]
    IN  [d EXCEPT !.ban_log = @ \cup {row}, !.sqlite_sequence = id]

\* INSERT INTO ban_log (timestamp, jail, ip, action) VALUES (?, ?, ?, action)
\* and commit: id is AUTOINCREMENT, country and hostname stay NULL.
Insert(d, ts, jail_name, ip, action) ==
    LET id == d.sqlite_sequence + 1
        row == [id |-> id, timestamp |-> ts, jail |-> jail_name, ip |-> ip,
                action |-> action, country |-> "NULL", hostname |-> "NULL"]
    IN  [d EXCEPT !.ban_log = @ \cup {row}, !.sqlite_sequence = id]

RECURSIVE OrderByIdDesc(_)
\* ORDER BY id DESC
OrderByIdDesc(rows) ==
    IF rows = {} THEN <<>>
    ELSE LET m == CHOOSE r \in rows : \A q \in rows : q.id <= r.id
         IN  <<m>> \o OrderByIdDesc(rows \ {m})

RECURSIVE OrderByIdAsc(_)
OrderByIdAsc(rows) ==
    IF rows = {} THEN <<>>
    ELSE LET m == CHOOSE r \in rows : \A q \in rows : q.id >= r.id
         IN  <<m>> \o OrderByIdAsc(rows \ {m})

\* LIMIT n
Limit(seq, n) == SubSeq(seq, 1, IF n < Len(seq) THEN n ELSE Len(seq))

\* A variant of the query that orders oldest first.
SelectOldest(d, limit) == Limit(OrderByIdAsc(d.ban_log), limit)

\* SELECT * FROM ban_log ORDER BY id DESC LIMIT ?
SelectRecent(d, limit) == Limit(OrderByIdDesc(d.ban_log), limit)

\* Query(100, ge=1, le=1000)
LimitValid(limit) == MinLimit <= limit /\ limit <= MaxLimit

\* --------------------------------------------- synthetic data generator

\* The jail names of get_demo_data, in its order.
DemoJails ==
    << <<"sshd">>, <<"nginx-http-auth">>, <<"postfix">>, <<"dovecot">>,
       <<"apache-auth">>, <<"recidive">> >>

Countries == <<"CN", "RU", "US", "BR", "IN", "KR", "DE", "FR", "VN", "ID">>

\* The seeds the pseudo-random source is started from.
Seeds == {0, 1}

\* random.randint(lo, hi): the k-th draw of the source seeded with seed, a
\* value of lo..hi.
randint(seed, k, lo, hi) == lo + ((seed * 37 + k * 11 + seed * k) % (hi - lo + 1))

\* f"{randint(1,223)}.{randint(0,255)}.{randint(0,255)}.{randint(1,254)}",
\* kept as its four octets.
DemoIp(seed, k) ==
    <<randint(seed, k, 1, 223), randint(seed, k + 1, 0, 255),
      randint(seed, k + 2, 0, 255), randint(seed, k + 3, 1, 254)>>

\* demo_jails[jail] for the i-th jail
DemoJail(seed, i) ==
    LET banned_ips == [j \in 1..randint(seed, i, 0, 8) |-> DemoIp(seed, 100 * i + 4 * j)]
    IN  [currently_banned |-> Len(banned_ips),
         total_banned |-> Len(banned_ips) + randint(seed, 10 + i, 5, 50),
         total_failed |-> randint(seed, 20 + i, 100, 5000),
         banned_ips |-> banned_ips,
         filter |-> [currently_failed |-> randint(seed, 30 + i, 0, 10),
                     total_failed |-> randint(seed, 40 + i, 100, 5000)]]

\* The count drawn for hour h (0..23) and the i-th jail.
DemoCount(seed, h, i) ==
    IF DemoJails[i] = <<"sshd">>
    THEN randint(seed, 1000 + 6 * h + i, 0, 15)
    ELSE randint(seed, 1000 + 6 * h + i, 0, 5)

NonZeroCount(entry) == entry.count > 0

\* The timeline loop over h in range(24) and the jails: an entry for every
\* hour and jail whose count is positive.  hour is the hour of day of
\* now - (23 - h) hours.
DemoTimeline(seed, hour_now) ==
    LET n_jails == Len(DemoJails)
        every   == [n \in 1..(24 * n_jails) |->
                     LET h == (n - 1) \div n_jails
                         i == ((n - 1) % n_jails) + 1
                     IN  [hour |-> (hour_now + 1 + h) % 24, jail |-> DemoJails[i],
                          count |-> DemoCount(seed, h, i)]]
    IN  SelectSeq(every, NonZeroCount)

\* random.sample(jails, n), kept in catalog order from a drawn start
DemoSample(seed, k, n) ==
    LET start == randint(seed, k, 0, Len(DemoJails) - 1)
    IN  [j \in 1..n |-> DemoJails[((start + j - 1) % Len(DemoJails)) + 1]]

\* One entry of top_ips
DemoTopIp(seed, t) ==
    [ip |-> DemoIp(seed, 2000 + 10 * t),
     ban_count |-> randint(seed, 3000 + t, 3, 25),
     country |-> Countries[randint(seed, 3100 + t, 1, Len(Countries))],
     last_seen_minutes_ago |-> randint(seed, 3200 + t, 1, 1440),
     jails |-> DemoSample(seed, 3300 + t, randint(seed, 3400 + t, 1, 3))]

RECURSIVE InsertByBanCount(_, _)
InsertByBanCount(sorted, x) ==
    IF sorted = <<>> THEN <<x>>
    ELSE IF Head(sorted).ban_count >= x.ban_count
         THEN <<Head(sorted)>> \o InsertByBanCount(Tail(sorted), x)
         ELSE <<x>> \o sorted

RECURSIVE SortByBanCountDesc(_)
\* list.sort(key=ban_count, reverse=True): stable
SortByBanCountDesc(xs) ==
    IF xs = <<>> THEN <<>>
    ELSE InsertByBanCount(SortByBanCountDesc(SubSeq(xs, 1, Len(xs) - 1)), xs[Len(xs)])

RECURSIVE SumCurrentlyBanned(_, _)
SumCurrentlyBanned(seed, i) ==
    IF i = 0 THEN 0
    ELSE DemoJail(seed, i).currently_banned + SumCurrentlyBanned(seed, i - 1)

\* The demo_jails dictionary of get_demo_data()
DemoJailData(seed) ==
    [name \in {DemoJails[i] : i \in 1..Len(DemoJails)} |->
       DemoJail(seed, CHOOSE i \in 1..Len(DemoJails) : DemoJails[i] = name)]

\* get_demo_data(), for a seed of the random source and the hour of day
get_demo_data(seed, hour_now) ==
    [jails |-> DemoJailData(seed),
     timeline |-> DemoTimeline(seed, hour_now),
     top_ips |-> SortByBanCountDesc([t \in 1..10 |-> DemoTopIp(seed, t)]),
     total_banned_now |-> SumCurrentlyBanned(seed, Len(DemoJails)),
     total_jails |-> Len(DemoJails)]

\* ------------------------------------------------------------------ state

VARIABLES
    pc,          \* "boot" before the startup handler has run, then "serving"
    DEMO_MODE,   \* the F2B_DEMO setting
    demo_mode,   \* the module's _demo_mode flag
    db,          \* the SQLite file: its schema objects, ban_log rows, AUTOINCREMENT counter
    now,         \* the clock datetime.now() reads
    f2b_up,      \* whether the backend answers commands
    response,    \* the last handler's reply and the commands it ran
    preceding    \* for a get_ban_log reply: the ban_ip request handled just before it, if one was

vars == <<pc, DEMO_MODE, demo_mode, db, now, f2b_up, response, preceding>>

\* The values of F2B_DEMO the model starts from; "1" is neither "true" nor "false".
DemoModeValues == {"true", "false", "auto", "1"}

\* The path parameters of the requests: the jails asked about, and the jail
\* and address of the ban and unban requests.
JailNames == { <<"sshd">>, <<"nosuch">> }
BanJails == { <<"sshd">> }
Ips == { <<"1.2.3.4">> }

\* The limit parameters of the requests.
Limits == {0, 1, MaxLimit, MaxLimit + 1}

NoArgs == [jail_name |-> <<>>, ip |-> <<>>, limit |-> 0]
NoPreceding == [op |-> "none", args |-> NoArgs, status |-> 0]

\* A reply: the handler, its parameters, the HTTP status, the exception that
\* left the handler ("none" when it returned), the body (a JSON object as a
\* record with the object's keys; a JSON array as [array]; plain text as
\* [text]), the command channel calls made, in order, and what became of the
\* handler's INSERT ("none" when it made none, "committed", "failed").
Reply(op, args, status, raised, body, cmds) ==
    [op |-> op, args |-> args, status |-> status, raised |-> raised,
     body |-> body, cmds |-> cmds, db_write |-> "none"]

NoResponse == Reply("none", NoArgs, 0, "none", [text |-> <<>>], <<>>)

\* One command channel call.
Call(args, r) == [args |-> args, output |-> r.output, code |-> r.code]

\* The reply to an exception no handler catches.
InternalServerError(op, args, raised, cmds) ==
    Reply(op, args, 500, raised, [text |-> <<"Internal Server Error">>], cmds)

\* raise HTTPException(status, detail)
HttpException(op, args, status, detail, cmds) ==
    Reply(op, args, status, "HTTPException", [detail |-> detail], cmds)

Init ==
    /\ pc = "boot"
    /\ DEMO_MODE \in DemoModeValues
    /\ demo_mode = FALSE
    /\ db = NoDatabase
    /\ now = 0
    /\ f2b_up \in BOOLEAN
    /\ response = NoResponse
    /\ preceding = NoPreceding

\* ---------------------------------------------------------------- startup

\* A variant of the mode decision that takes any non-negative code for success.
ResolveModeLoose(setting, code) ==
    IF setting = "true" THEN TRUE
    ELSE IF setting = "false" THEN FALSE
    ELSE ~(code >= 0)

\* The three-way decision of startup(): the value of _demo_mode.
ResolveMode(setting, code) ==
    IF setting = "true" THEN TRUE
    ELSE IF setting = "false" THEN FALSE
    ELSE ~is_f2b_available(code)

\* Whether startup() reaches the else branch that calls is_f2b_available.
Probes(setting) == setting \notin {"true", "false"}

startup ==
    /\ pc = "boot"
    /\ \E r \in run_f2b_command(StatusArgs, f2b_up) :
         LET flag == ResolveMode(DEMO_MODE, r.code)
             cmds == IF Probes(DEMO_MODE) THEN <<Call(StatusArgs, r)>> ELSE <<>>
         IN  /\ demo_mode' = flag
             /\ response' = Reply("startup", NoArgs, 0, "none",
                                  [text |-> IF flag
                                            THEN <<"Running in DEMO mode (fail2ban-client not available)">>
                                            ELSE <<"Connected to fail2ban">>],
                                  cmds)
    /\ db' = init_db(db)
    /\ pc' = "serving"
    /\ preceding' = NoPreceding
    /\ UNCHANGED <<DEMO_MODE, now, f2b_up>>

\* The process ends and is started again: the module is loaded anew, the
\* database file and the daemon stay as they are.
Restart ==
    /\ pc = "serving"
    /\ pc' = "boot"
    /\ demo_mode' = FALSE
    /\ response' = NoResponse
    /\ preceding' = NoPreceding
    /\ UNCHANGED <<DEMO_MODE, db, now, f2b_up>>

\* The backend becomes reachable or unreachable.
BackendChange ==
    /\ f2b_up' = ~f2b_up
    /\ UNCHANGED <<pc, DEMO_MODE, demo_mode, db, now, response, preceding>>

\* --------------------------------------------------------------- handlers

\* dict[key] = value
Put(dict, key, value) ==
    [k \in DOMAIN dict \cup {key} |-> IF k = key THEN value ELSE dict[k]]

\* status.get("currently_banned", 0)
GetCurrentlyBanned(status) ==
    IF "currently_banned" \in DOMAIN status THEN status.currently_banned ELSE 0

RECURSIVE StatusLoop(_, _, _, _)
RECURSIVE StatusStep(_, _, _, _, _, _)
\* One iteration of the loop of get_status: the jail's status st is stored
\* and summed, unless parse_jail_status raised.
StatusStep(jails, rs, i, acc, st, cmds) ==
    IF st.kind = "raise"
    THEN [acc EXCEPT !.raised = TRUE, !.cmds = cmds]
    ELSE StatusLoop(jails, rs, i + 1,
                    [jail_data |-> Put(acc.jail_data, jails[i], st.value),
                     total_banned |-> acc.total_banned + GetCurrentlyBanned(st.value),
                     cmds |-> cmds,
                     raised |-> FALSE])

\* The loop of get_status over the jails, rs[i] being what the i-th status
\* command returned; an exception in parse_jail_status ends it.
StatusLoop(jails, rs, i, acc) ==
    IF i > Len(jails) THEN acc
    ELSE StatusStep(jails, rs, i, acc,
                    parse_jail_status(jails[i], rs[i].output, rs[i].code),
                    Append(acc.cmds, Call(JailStatusArgs(jails[i]), rs[i])))

\* The reply of get_status in live mode once the loop has ended.
StatusReply(jails, acc) ==
    IF acc.raised
    THEN InternalServerError("get_status", NoArgs, "AttributeError", acc.cmds)
    ELSE Reply("get_status", NoArgs, 200, "none",
               [jails |-> acc.jail_data,
                total_banned_now |-> acc.total_banned,
                total_jails |-> Len(jails),
                demo |-> FALSE],
               acc.cmds)

\* get_status in live mode, lr being what the jail list command returned.
LiveStatus(lr, jails) ==
    \E rs \in [1..Len(jails) -> run_f2b_command(JailStatusArgs(<<>>), f2b_up)] :
        response' = StatusReply(jails,
                                StatusLoop(jails, rs, 1,
                                           [jail_data |-> [k \in {} |-> 0],
                                            total_banned |-> 0,
                                            cmds |-> <<Call(StatusArgs, lr)>>,
                                            raised |-> FALSE]))

get_status ==
    /\ pc = "serving"
    /\ IF demo_mode
       THEN \E seed \in Seeds :
              response' = Reply("get_status", NoArgs, 200, "none",
                                get_demo_data(seed, now % 24), <<>>)
       ELSE \E lr \in run_f2b_command(StatusArgs, f2b_up) :
              LiveStatus(lr, get_all_jails(lr.output, lr.code))
    /\ preceding' = NoPreceding
    /\ UNCHANGED <<pc, DEMO_MODE, demo_mode, db, now, f2b_up>>

\* The reply of get_jail in synthetic mode.
DemoJailReply(args, jail_name, jails) ==
    IF jail_name \in DOMAIN jails
    THEN Reply("get_jail", args, 200, "none", jails[jail_name], <<>>)
    ELSE HttpException("get_jail", args, 404,
                       <<"Jail '">> \o jail_name \o <<"' not found">>, <<>>)

\* The reply of get_jail in live mode, st being what parse_jail_status gave.
LiveJailReply(args, st, cmds) ==
    IF st.kind = "raise"
    THEN InternalServerError("get_jail", args, "AttributeError", cmds)
    ELSE IF "error" \in DOMAIN st.value
    THEN HttpException("get_jail", args, 500, st.value.error, cmds)
    ELSE Reply("get_jail", args, 200, "none", st.value, cmds)

get_jail(jail_name) ==
    /\ pc = "serving"
    /\ IF demo_mode
       THEN \E seed \in Seeds :
              response' = DemoJailReply([NoArgs EXCEPT !.jail_name = jail_name],
                                        jail_name, DemoJailData(seed))
       ELSE \E r \in run_f2b_command(JailStatusArgs(jail_name), f2b_up) :
              response' = LiveJailReply([NoArgs EXCEPT !.jail_name = jail_name],
                                        parse_jail_status(jail_name, r.output, r.code),
                                        <<Call(JailStatusArgs(jail_name), r)>>)
    /\ preceding' = NoPreceding
    /\ UNCHANGED <<pc, DEMO_MODE, demo_mode, db, now, f2b_up>>

\* A variant of the handlers' control flow that never looks at the status code.
OutcomeAnyCode(demo, code, db_fails) ==
    IF demo THEN "demo"
    ELSE IF db_fails THEN "persistence_error"
    ELSE "ok"

\* A variant that never looks at the mode flag.
OutcomeNoDemo(demo, code, db_fails) ==
    IF CommandFailed(code) THEN "backend_error"
    ELSE IF db_fails THEN "persistence_error"
    ELSE "ok"

\* A variant that catches the database error and goes on.
OutcomeSwallow(demo, code, db_fails) ==
    IF demo THEN "demo"
    ELSE IF CommandFailed(code) THEN "backend_error"
    ELSE "ok"

\* The path unban_ip takes: the demo return, the HTTPException on a
\* non-zero code, the sqlite3 error that leaves the handler when the INSERT
\* or its commit fails, or the final return.
UnbanOutcome(demo, code, db_fails) ==
    IF demo THEN "demo"
    ELSE IF CommandFailed(code) THEN "backend_error"
    ELSE IF db_fails THEN "persistence_error"
    ELSE "ok"

\* The path ban_ip takes, likewise.
BanOutcome(demo, code, db_fails) ==
    IF demo THEN "demo"
    ELSE IF CommandFailed(code) THEN "backend_error"
    ELSE IF db_fails THEN "persistence_error"
    ELSE "ok"

\* The messages of the two handlers.
DemoMessage(verb, ip, prep, jail_name) ==
    <<"[DEMO]", SP, verb, SP>> \o ip \o <<SP, prep, SP>> \o jail_name
OkMessage(verb, ip, prep, jail_name) ==
    <<verb, SP>> \o ip \o <<SP, prep, SP>> \o jail_name
FailDetail(verb, ip, output) ==
    <<"Failed to", SP, verb, SP>> \o ip \o <<COLON, SP>> \o output

\* What unban_ip and ban_ip have in common once the path is known: op is
\* the handler, action the value of the action column, r what the command
\* returned (had it been run), db_fails whether the INSERT or commit fails.
Act(op, action, cmd, outcome, jail_name, ip, r, db_fails) ==
    LET args    == [NoArgs EXCEPT !.jail_name = jail_name, !.ip = ip]
        cmds    == IF outcome = "demo" THEN <<>> ELSE <<Call(cmd, r)>>
        inserts == outcome \in {"persistence_error", "ok"}
        commits == inserts /\ ~db_fails
        would   == IF action = "ban" THEN "Would ban" ELSE "Would unban"
        done    == IF action = "ban" THEN "Banned" ELSE "Unbanned"
        prep    == IF action = "ban" THEN "in" ELSE "from"
        reply   ==
            CASE outcome = "demo" ->
                   Reply(op, args, 200, "none",
                         [status |-> "ok",
                          message |-> DemoMessage(would, ip, prep, jail_name)], cmds)
              [] outcome = "backend_error" ->
                   HttpException(op, args, 500, FailDetail(action, ip, r.output), cmds)
              [] outcome = "persistence_error" ->
                   InternalServerError(op, args, "sqlite3.Error", cmds)
              [] outcome = "ok" ->
                   Reply(op, args, 200, "none",
                         [status |-> "ok",
                          message |-> OkMessage(done, ip, prep, jail_name)], cmds)
    IN  /\ commits => Cardinality(db.ban_log) < MaxLog
        /\ db' = IF commits THEN Insert(db, now, jail_name, ip, action) ELSE db
        /\ now' = IF commits THEN now + 1 ELSE now
        /\ response' = [reply EXCEPT !.db_write = IF ~inserts THEN "none"
                                                  ELSE IF db_fails THEN "failed"
                                                  ELSE "committed"]

unban_ip(jail_name, ip) ==
    /\ pc = "serving"
    /\ \E r \in run_f2b_command(UnbanArgs(jail_name, ip), f2b_up), db_fails \in BOOLEAN :
         Act("unban_ip", "unban", UnbanArgs(jail_name, ip),
             UnbanOutcome(demo_mode, r.code, db_fails), jail_name, ip, r, db_fails)
    /\ preceding' = NoPreceding
    /\ UNCHANGED <<pc, DEMO_MODE, demo_mode, f2b_up>>

ban_ip(jail_name, ip) ==
    /\ pc = "serving"
    /\ \E r \in run_f2b_command(BanArgs(jail_name, ip), f2b_up), db_fails \in BOOLEAN :
         Act("ban_ip", "ban", BanArgs(jail_name, ip),
             BanOutcome(demo_mode, r.code, db_fails), jail_name, ip, r, db_fails)
    /\ preceding' = NoPreceding
    /\ UNCHANGED <<pc, DEMO_MODE, demo_mode, f2b_up>>

\* What a get_ban_log reply keeps of the request handled before it.
Summary(reply) ==
    IF reply.op = "ban_ip"
    THEN [op |-> reply.op, args |-> reply.args, status |-> reply.status]
    ELSE NoPreceding

get_ban_log(limit) ==
    /\ pc = "serving"
    /\ LET args == [NoArgs EXCEPT !.limit = limit]
       IN  response' =
             IF LimitValid(limit)
             THEN Reply("get_ban_log", args, 200, "none",
                        [array |-> SelectRecent(db, limit)], <<>>)
             ELSE Reply("get_ban_log", args, 422, "RequestValidationError",
                        [detail |-> <<"limit out of range">>], <<>>)
    /\ preceding' = Summary(response)
    /\ UNCHANGED <<pc, DEMO_MODE, demo_mode, db, now, f2b_up>>

get_mode ==
    /\ pc = "serving"
    /\ response' = Reply("get_mode", NoArgs, 200, "none", [demo |-> demo_mode], <<>>)
    /\ preceding' = NoPreceding
    /\ UNCHANGED <<pc, DEMO_MODE, demo_mode, db, now, f2b_up>>

Next ==
    \/ startup
    \/ Restart
    \/ BackendChange
    \/ get_status
    \/ \E jail_name \in JailNames : get_jail(jail_name)
    \/ \E jail_name \in BanJails, ip \in Ips : unban_ip(jail_name, ip)
    \/ \E jail_name \in BanJails, ip \in Ips : ban_ip(jail_name, ip)
    \/ \E limit \in Limits : get_ban_log(limit)
    \/ get_mode

Spec == Init /\ [][Next]_vars

\* ----------------------------------------------------------------- claims

IsAct(reply) == reply.op \in {"unban_ip", "ban_ip"}

\* The verb of the failure detail of a handler.
VerbOf(op) == IF op = "ban_ip" THEN "ban" ELSE "unban"

\* The rows a reply returned.
RowsOf(reply) == {reply.body.array[i] : i \in 1..Len(reply.body.array)}

C1_Reply ==
    (IsAct(response) /\ ~demo_mode) =>
        /\ Len(response.cmds) = 1
        /\ response.cmds[1].code # 0 =>
             /\ response.status = 500
             /\ response.raised = "HTTPException"
             /\ response.body.detail =
                  <<"Failed to", SP, VerbOf(response.op), SP>> \o response.args.ip
                     \o <<COLON, SP>> \o response.cmds[1].output
             /\ response.db_write = "none"

C1_Step ==
    /\ db'.ban_log # db.ban_log =>
         /\ IsAct(response')
         /\ Len(response'.cmds) = 1
         /\ response'.cmds[1].code = 0
    /\ (IsAct(response') /\ ~demo_mode' /\ response'.cmds[1].code # 0) => db' = db

\* C1: in live mode a ban or unban request adds a row to ban_log only if
\* its command returned code 0; on any other code (also -1 and -2) it fails
\* with the HTTP 500 error whose detail carries the command output, and the
\* table is as it was.
C1_LogOnlyOnSuccess == []C1_Reply /\ [][C1_Step]_vars

\* C1: a live ban request whose command timed out was answered 500 while
\* the table held a row.
C1_Witness ==
    /\ response.op = "ban_ip"
    /\ ~demo_mode
    /\ Len(response.cmds) = 1
    /\ response.cmds[1].code = TimeoutCode
    /\ response.cmds[1].output = <<"timeout">>
    /\ response.status = 500
    /\ db.ban_log # {}

C2_Reply ==
    (IsAct(response) /\ demo_mode) =>
        /\ response.status = 200
        /\ response.raised = "none"
        /\ response.body.status = "ok"
        /\ response.cmds = <<>>
        /\ response.db_write = "none"

C2_Step ==
    (IsAct(response') /\ demo_mode') => (db' = db /\ demo_mode' = demo_mode)

\* C2: in synthetic mode a ban or unban request reports success, runs no
\* command and leaves ban_log and the mode flag as they were.
C2_DemoNoOp == []C2_Reply /\ [][C2_Step]_vars

\* C2: an unban request answered in synthetic mode while the backend was
\* reachable and the table held a row.
C2_Witness ==
    /\ response.op = "unban_ip"
    /\ demo_mode
    /\ f2b_up
    /\ response.status = 200
    /\ db.ban_log # {}

C3_Resolved ==
    response.op = "startup" =>
        CASE DEMO_MODE = "true"  -> demo_mode = TRUE
          [] DEMO_MODE = "false" -> demo_mode = FALSE
          [] OTHER -> /\ Len(response.cmds) = 1
                      /\ response.cmds[1].args = StatusArgs
                      /\ demo_mode = (response.cmds[1].code # 0)

C3_Step ==
    (pc = "serving" /\ pc' = "serving") =>
        /\ demo_mode' = demo_mode
        /\ (demo_mode /\ response' # response) => response'.cmds = <<>>

\* C3: startup sets the flag to synthetic for "true", to live for "false"
\* and otherwise to live exactly when the status probe returned code 0;
\* afterwards no request changes the flag, and in synthetic mode no request
\* runs a command, whether or not the backend has become reachable.
C3_ModeFixedAtStartup == []C3_Resolved /\ [][C3_Step]_vars

\* C3: under auto the status is served in synthetic mode although the
\* backend is reachable by now.
C3_Witness ==
    /\ DEMO_MODE = "auto"
    /\ pc = "serving"
    /\ demo_mode
    /\ f2b_up
    /\ response.op = "get_status"

\* What get_ban_log(1) must return after the ban request in preceding.
C4_ReturnsThatBan ==
    /\ response.status = 200
    /\ Len(response.body.array) = 1
    /\ response.body.array[1].jail = preceding.args.jail_name
    /\ response.body.array[1].ip = preceding.args.ip
    /\ response.body.array[1].action = "ban"
    /\ response.body.array[1].timestamp = now - 1
    /\ \A r \in db.ban_log : r.id <= response.body.array[1].id

C4_AfterBan ==
    /\ response.op = "get_ban_log"
    /\ response.args.limit = 1
    /\ preceding.op = "ban_ip"

\* C4 as stated: get_ban_log(1) right after any ban request returns exactly
\* that ban as the newest row.
C4_Original == C4_AfterBan => C4_ReturnsThatBan

\* C4 amended: get_ban_log(1) right after a ban request that was answered
\* with success in live mode returns exactly one row, the one that request
\* wrote: its jail, its address, action "ban", the largest id.
C4_AfterLiveBan == (C4_AfterBan /\ ~demo_mode /\ preceding.status = 200) => C4_ReturnsThatBan

\* C4: the ban was logged after an earlier unban, and get_ban_log(1)
\* returned the ban.
C4_Witness ==
    /\ C4_AfterBan
    /\ ~demo_mode
    /\ preceding.status = 200
    /\ Cardinality(db.ban_log) = 2
    /\ \E r \in db.ban_log : r.action = "unban"
    /\ response.body.array[1].action = "ban"

\* C5: a jail status request whose command returned code 0 is answered
\* with a record, whatever the output text.
C5_ParseNeverFails ==
    (response.op = "get_jail" /\ ~demo_mode /\ response.cmds[1].code = 0) =>
        /\ response.status = 200
        /\ response.raised = "none"
        /\ "currently_banned" \in DOMAIN response.body

\* Whether a body says that its data is synthetic.
Marked(body) ==
    \/ "demo" \in DOMAIN body /\ body.demo = TRUE
    \/ "message" \in DOMAIN body /\ Contains(body.message, <<"[DEMO]">>)

\* C6: in synthetic mode every reply of get_status, get_jail, ban_ip,
\* unban_ip and get_mode carries a marker that its data is synthetic.
C6_DemoMarked ==
    (demo_mode /\ response.op \in {"get_status", "get_jail", "unban_ip", "ban_ip", "get_mode"})
        => Marked(response.body)

\* The sum of currently_banned over the records of a jails dictionary.
RECURSIVE SumBanned(_, _)
SumBanned(jails, names) ==
    IF names = {} THEN 0
    ELSE LET n == CHOOSE x \in names : TRUE
         IN  (IF "currently_banned" \in DOMAIN jails[n] THEN jails[n].currently_banned ELSE 0)
               + SumBanned(jails, names \ {n})

\* The call of the reply that asked for the status of a jail.
CallFor(reply, jail_name) ==
    CHOOSE i \in 1..Len(reply.cmds) : reply.cmds[i].args = JailStatusArgs(jail_name)

\* C7: in live mode get_status always answers: every jail of the jail list
\* has an entry, an error marker when its command returned a non-zero code
\* and a record otherwise; total_banned_now is the sum over the records;
\* a non-zero code of the list command gives no jails and total 0.
C7_StatusNeverAborts ==
    (response.op = "get_status" /\ ~demo_mode) =>
        /\ response.status = 200
        /\ LET listed == get_all_jails(response.cmds[1].output, response.cmds[1].code)
               names  == {listed[i] : i \in 1..Len(listed)}
           IN  /\ DOMAIN response.body.jails = names
               /\ \A n \in names :
                    LET c == response.cmds[CallFor(response, n)]
                    IN  IF c.code # 0
                        THEN DOMAIN response.body.jails[n] = {"error"}
                        ELSE "currently_banned" \in DOMAIN response.body.jails[n]
               /\ response.body.total_banned_now = SumBanned(response.body.jails, names)
               /\ response.cmds[1].code # 0 =>
                    (names = {} /\ response.body.total_banned_now = 0)

\* C8: get_ban_log with a limit of 1..1000 returns the rows with the largest
\* ids, at most limit of them, ids strictly descending; with any other limit
\* it is rejected and returns no rows.
C8_RecentNewestFirst ==
    response.op = "get_ban_log" =>
        IF 1 <= response.args.limit /\ response.args.limit <= 1000
        THEN /\ response.status = 200
             /\ LET rows == response.body.array
                IN  /\ Len(rows) <= response.args.limit
                    /\ Len(rows) = IF Cardinality(db.ban_log) < response.args.limit
                                   THEN Cardinality(db.ban_log) ELSE response.args.limit
                    /\ RowsOf(response) \subseteq db.ban_log
                    /\ \A i \in 1..(Len(rows) - 1) : rows[i].id > rows[i + 1].id
                    /\ \A r \in db.ban_log \ RowsOf(response) :
                         \A i \in 1..Len(rows) : r.id < rows[i].id
        ELSE /\ response.status = 422
             /\ "array" \notin DOMAIN response.body

\* C8: a limit of 1 cut a table of two rows down to the newest.
C8_Witness ==
    /\ response.op = "get_ban_log"
    /\ response.args.limit = 1
    /\ response.status = 200
    /\ Cardinality(db.ban_log) = 2
    /\ Len(response.body.array) = 1
    /\ response.body.array[1].id = 2

C9_Reply ==
    (IsAct(response) /\ ~demo_mode /\ response.db_write = "failed") =>
        /\ response.status = 500
        /\ response.raised = "sqlite3.Error"
        /\ Len(response.cmds) = 1
        /\ response.cmds[1].code = 0

C9_Step == response'.db_write = "failed" => db' = db

\* C9: in live mode, when the command succeeded and the INSERT failed, the
\* request is answered with an error and never with success, ban_log is as
\* it was, and the successful command is the only one run: nothing undoes it.
C9_WriteFailureSurfaced == []C9_Reply /\ [][C9_Step]_vars

\* C9: a ban command returned 0, the INSERT failed, the reply was 500.
C9_Witness ==
    /\ response.op = "ban_ip"
    /\ ~demo_mode
    /\ response.db_write = "failed"
    /\ response.cmds[1].code = 0
    /\ response.cmds[1].args = BanArgs(response.args.jail_name, response.args.ip)
    /\ response.status = 500

C10_Step ==
    /\ db.ban_log \subseteq db'.ban_log
    /\ \A r \in db'.ban_log \ db.ban_log : \A q \in db.ban_log : r.id > q.id
    /\ db'.ban_log # db.ban_log => IsAct(response')
    /\ db.objects \subseteq db'.objects

\* C10: ban_log only grows: no step, a repeated init_db included, alters or
\* removes a row; a new row has an id above every existing one; only ban_ip
\* and unban_ip add rows.
C10_AppendOnly == [][C10_Step]_vars

\* C10: startup ran init_db again over a table of two rows.
C10_Witness ==
    /\ response.op = "startup"
    /\ pc = "serving"
    /\ Cardinality(db.ban_log) = 2
    /\ "ban_log" \in db.objects

====
